---- MODULE Spec2Model ----
(***************************************************************************)
(* Freak-n-Fries website: the settings resolver, the read-only data        *)
(* accessors, the page handlers (app.py) and the static exporter           *)
(* (freeze.py), as state machines over the SQLite store and the build      *)
(* directory.                                                              *)
(***************************************************************************)
EXTENDS Integers, Sequences, FiniteSets, TLC

\* ------------------------------------------------------------------ bounds
\* Most rows the settings table holds, and most rows any other table holds.
MaxSettingsRows == 2
MaxRows == 3

\* ------------------------------------------------------------- the store
TableNames == {"settings", "pages", "page_content", "retailers", "testimonials"}

\* The five recognized settings keys (app.py:42-48, 65-71).
SettingKeys == {"company_name", "tagline", "phone", "email", "product_name"}

\* Python's None / SQL NULL, as a value distinct from every stored text.
Null == "<None>"

\* The values the code treats as "no value": None and the empty string.
EmptyValues == {Null, ""}

\* The built-in defaults, repeated at app.py:43-47, 65-71, 84-90, 95-101.
DefaultSettings ==
    [k \in SettingKeys |->
        CASE k = "company_name" -> "Freak-n-Fries"
          [] k = "tagline"      -> "Home of the Dutch frikandel in the US"
          [] k = "phone"        -> "440 453 1877"
          [] k = "email"        -> "info@freaknfries.com"
          [] k = "product_name" -> "Dutch Dawg®"]

\* A table of the store: whether it exists, its columns, its rows in rowid
\* order; a row is a function from the table's columns to values.
NoTable == [exists |-> FALSE, cols |-> {}, rows |-> <<>>]

VARIABLES
    db,      \* the SQLite store: table name -> table
    static,  \* the files under the application's static folder
    build,   \* the build directory: whether it exists, and the files in it
    last     \* the last call or request: its inputs, result and events

vars == <<db, static, build, last>>

\* ----------------------------------------------------- results of a call
\* A call either returns a value or raises; ev lists, in order, what it did
\* to connections and which queries it issued.
Return(v, ev) == [exc |-> "", val |-> v, ev |-> ev]
Raise(msg, ev) == [exc |-> msg, val |-> <<>>, ev |-> ev]

\* sqlite3.connect's error when the database file cannot be opened.
ConnError == "unable to open database file"

\* A query raises sqlite3.Error when the table or a column it names is missing.
QueryFails(tbl, needed) == ~tbl.exists \/ ~(needed \subseteq tbl.cols)

\* cursor.fetchone() over the matching rows: the first one, or None.
FetchOne(rows) ==
    IF rows = <<>> THEN [found |-> FALSE, row |-> <<>>]
    ELSE [found |-> TRUE, row |-> Head(rows)]

\* ------------------------------------------------------ get_site_settings
\* Method 1 (app.py:38-52): SELECT * FROM settings WHERE id = 1, fetchone.
SettingsRowQuery(tbl) ==
    IF QueryFails(tbl, {"id"}) THEN [failed |-> TRUE, found |-> FALSE, row |-> <<>>]
    ELSE LET one == FetchOne(SelectSeq(tbl.rows, LAMBDA r : r["id"] = 1))
         IN  [failed |-> FALSE, found |-> one.found, row |-> one.row]

\* SettingsFromRow with None, not the default, for a column the row lacks.
SettingsFromRowWithNone(row) ==
    [k \in SettingKeys |-> IF k \in DOMAIN row THEN row[k] ELSE Null]

\* app.py:42-48: each recognized key from the row when the row has that
\* column, its default otherwise.
SettingsFromRow(row) ==
    [k \in SettingKeys |-> IF k \in DOMAIN row THEN row[k] ELSE DefaultSettings[k]]

\* Method 2 (app.py:55-80): SELECT key, value FROM settings, fetchall.
SettingsKVQuery(tbl) ==
    IF QueryFails(tbl, {"key", "value"}) THEN [failed |-> TRUE, rows |-> <<>>]
    ELSE [failed |-> FALSE, rows |-> tbl.rows]

\* app.py:60-62: the dictionary built from the rows; a later row overwrites
\* an earlier one with the same key.
KVDict(rows) ==
    [k \in {rows[i]["key"] : i \in DOMAIN rows} |->
        LET lastIdx == CHOOSE i \in DOMAIN rows :
                          /\ rows[i]["key"] = k
                          /\ \A j \in DOMAIN rows : rows[j]["key"] = k => j <= i
        IN  rows[lastIdx]["value"]]

\* FillDefaults with None, not the default, for a missing key.
FillDefaultsWithNone(d) ==
    [k \in (DOMAIN d) \cup SettingKeys |-> IF k \in DOMAIN d THEN d[k] ELSE Null]

\* app.py:73-75: every recognized key missing from the dictionary gets its
\* default; every key of the dictionary is kept.
FillDefaults(d) ==
    [k \in (DOMAIN d) \cup SettingKeys |->
        IF k \in DOMAIN d THEN d[k] ELSE DefaultSettings[k]]

\* get_site_settings with the two methods in the other order: the key/value
\* query first, the id = 1 query when it gave nothing.
get_site_settings_KeyValueFirst(tbl, connOk) ==
    IF ~connOk THEN Raise(ConnError, <<"connect-failed">>)
    ELSE LET m1 == SettingsRowQuery(tbl)
             m2 == SettingsKVQuery(tbl)
         IN  IF ~m2.failed /\ m2.rows # <<>>
             THEN Return(FillDefaults(KVDict(m2.rows)),
                         <<"open", "query settings key/value", "close", "close">>)
             ELSE IF ~m1.failed /\ m1.found
             THEN Return(SettingsFromRow(m1.row),
                         <<"open", "query settings key/value", "query settings id=1",
                           "close", "close">>)
             ELSE Return(DefaultSettings,
                         <<"open", "query settings key/value", "query settings id=1",
                           "close">>)

\* get_site_settings (app.py:32-106). The connection is acquired before the
\* try block (line 34), so a failure to connect leaves the function as an
\* exception. Method 1's and method 2's returns close the connection
\* (lines 49, 77) and the finally clause closes it again (line 104). The two
\* queries raise nothing but sqlite3.Error, which lines 51 and 79 catch, and
\* the row is read only through columns it has; the catch-all of lines 92-101
\* would return the same defaults as method 3.
get_site_settings(tbl, connOk) ==
    IF ~connOk THEN Raise(ConnError, <<"connect-failed">>)
    ELSE LET m1 == SettingsRowQuery(tbl)
             m2 == SettingsKVQuery(tbl)
         IN  IF ~m1.failed /\ m1.found
             THEN Return(SettingsFromRow(m1.row),
                         <<"open", "query settings id=1", "close", "close">>)
             ELSE IF ~m2.failed /\ m2.rows # <<>>
             THEN Return(FillDefaults(KVDict(m2.rows)),
                         <<"open", "query settings id=1", "query settings key/value",
                           "close", "close">>)
             ELSE Return(DefaultSettings,
                         <<"open", "query settings id=1", "query settings key/value",
                           "close">>)

\* ---------------------------------------------------------- the accessors
\* An optional row: a fetched row, or None.
Absent == [found |-> FALSE, row |-> <<>>]

\* get_page (app.py:108-118): SELECT * FROM pages WHERE slug = ?, fetchone;
\* None on sqlite3.Error; the connection is acquired before the try block.
get_page(tbl, slug, connOk) ==
    IF ~connOk THEN Raise(ConnError, <<"connect-failed">>)
    ELSE IF QueryFails(tbl, {"slug"})
    THEN Return(Absent, <<"open", "query pages", "close">>)
    ELSE Return(FetchOne(SelectSeq(tbl.rows, LAMBDA r : r["slug"] = slug)),
                <<"open", "query pages", "close">>)

\* get_page_content without its finally clause: the connection is closed
\* only when the query succeeds.
get_page_content_NoFinally(tbl, page_name, connOk) ==
    IF ~connOk THEN Raise(ConnError, <<"connect-failed">>)
    ELSE IF QueryFails(tbl, {"page_name"})
    THEN Return(Absent, <<"open", "query page_content">>)
    ELSE Return(FetchOne(SelectSeq(tbl.rows, LAMBDA r : r["page_name"] = page_name)),
                <<"open", "query page_content", "close">>)

\* get_page_content (app.py:120-130): SELECT * FROM page_content WHERE
\* page_name = ?, fetchone; None on sqlite3.Error.
get_page_content(tbl, page_name, connOk) ==
    IF ~connOk THEN Raise(ConnError, <<"connect-failed">>)
    ELSE IF QueryFails(tbl, {"page_name"})
    THEN Return(Absent, <<"open", "query page_content", "close">>)
    ELSE Return(FetchOne(SelectSeq(tbl.rows, LAMBDA r : r["page_name"] = page_name)),
                <<"open", "query page_content", "close">>)

\* SQLite's BINARY collation on the retailer names and categories of the
\* model: the rank of a text in ascending order.
TextRank(t) ==
    CASE t = "Alpha Store" -> 1
      [] t = "Beta Store"  -> 2
      [] t = "Gamma Store" -> 3
      [] t = "online"      -> 4
      [] t = "restaurant"  -> 5
      [] OTHER             -> 6

\* ORDER BY: the rows in ascending order of their keys (keys[i] is the key
\* of rows[i]), rows with equal keys in table order.
OrderBy(rows, keys) ==
    LET Pos(i) == 1 + Cardinality({j \in DOMAIN rows :
                         \/ keys[j] < keys[i]
                         \/ keys[j] = keys[i] /\ j < i})
    IN  [p \in DOMAIN rows |-> rows[CHOOSE i \in DOMAIN rows : Pos(i) = p]]

\* ORDER BY name.
NameKey(r) == TextRank(r["name"])

\* ORDER BY category, name.
CategoryNameKey(r) == TextRank(r["category"]) * 10 + TextRank(r["name"])

\* get_retailers_by_category without its ORDER BY.
get_retailers_by_category_Unordered(tbl, category, connOk) ==
    IF ~connOk THEN Raise(ConnError, <<"connect-failed">>)
    ELSE IF QueryFails(tbl, {"category", "name"})
    THEN Return(<<>>, <<"open", "query retailers by category", "close">>)
    ELSE Return(SelectSeq(tbl.rows, LAMBDA r : r["category"] = category),
                <<"open", "query retailers by category", "close">>)

\* get_retailers_by_category (app.py:132-142): SELECT * FROM retailers WHERE
\* category = ? ORDER BY name, fetchall; [] on sqlite3.Error.
get_retailers_by_category(tbl, category, connOk) ==
    IF ~connOk THEN Raise(ConnError, <<"connect-failed">>)
    ELSE IF QueryFails(tbl, {"category", "name"})
    THEN Return(<<>>, <<"open", "query retailers by category", "close">>)
    ELSE Return(LET rows == SelectSeq(tbl.rows, LAMBDA r : r["category"] = category)
                IN  OrderBy(rows, [i \in DOMAIN rows |-> NameKey(rows[i])]),
                <<"open", "query retailers by category", "close">>)

\* get_all_retailers (app.py:144-154): SELECT * FROM retailers ORDER BY
\* category, name, fetchall; [] on sqlite3.Error.
get_all_retailers(tbl, connOk) ==
    IF ~connOk THEN Raise(ConnError, <<"connect-failed">>)
    ELSE IF QueryFails(tbl, {"category", "name"})
    THEN Return(<<>>, <<"open", "query retailers", "close">>)
    ELSE Return(OrderBy(tbl.rows, [i \in DOMAIN tbl.rows |-> CategoryNameKey(tbl.rows[i])]),
                <<"open", "query retailers", "close">>)

\* get_testimonials without its WHERE clause.
get_testimonials_Unfiltered(tbl, connOk) ==
    IF ~connOk THEN Raise(ConnError, <<"connect-failed">>)
    ELSE IF QueryFails(tbl, {"active"})
    THEN Return(<<>>, <<"open", "query testimonials", "close">>)
    ELSE Return(tbl.rows, <<"open", "query testimonials", "close">>)

\* get_testimonials (app.py:156-166): SELECT * FROM testimonials WHERE
\* active = 1, fetchall; [] on sqlite3.Error.
get_testimonials(tbl, connOk) ==
    IF ~connOk THEN Raise(ConnError, <<"connect-failed">>)
    ELSE IF QueryFails(tbl, {"active"})
    THEN Return(<<>>, <<"open", "query testimonials", "close">>)
    ELSE Return(SelectSeq(tbl.rows, LAMBDA r : r["active"] = 1),
                <<"open", "query testimonials", "close">>)

\* ------------------------------------------------------ the page handlers
\* The events of the first k steps of a handler, in order.
RECURSIVE Events(_, _)
Events(steps, k) ==
    IF k = 0 THEN <<>> ELSE Events(steps, k - 1) \o steps[k].ev

\* The first step of a handler that raises, 0 when none does.
FirstRaise(steps) ==
    IF \E i \in DOMAIN steps : steps[i].exc # ""
    THEN CHOOSE i \in DOMAIN steps :
            steps[i].exc # "" /\ \A j \in 1..(i - 1) : steps[j].exc = ""
    ELSE 0

\* What a template rendering can do: succeed, find no template, or fail
\* while rendering.
RenderOutcomes == {"ok", "TemplateNotFound", "TemplateError"}

\* inject_global_vars (app.py:174-181): the context processor run by every
\* render; get_site_settings under the two names the templates use.
inject_global_vars(d, connOk) ==
    LET s == get_site_settings(d["settings"], connOk)
    IN  IF s.exc # "" THEN s
        ELSE Return([site_settings |-> s.val, settings |-> s.val], s.ev)

\* render_template (app.py:192, 212, 236, 267): the template is looked up,
\* the context processor adds its variables where the handler passed none of
\* that name, and the template is rendered.
render_template(template, ctx, d, connOk, outcome) ==
    IF outcome = "TemplateNotFound" THEN Raise(template, <<>>)
    ELSE LET inj == inject_global_vars(d, connOk)
         IN  IF inj.exc # "" THEN inj
             ELSE IF outcome = "TemplateError" THEN Raise("TemplateError", inj.ev)
             ELSE Return([template |-> template,
                          ctx |-> [k \in (DOMAIN ctx) \cup (DOMAIN inj.val) |->
                                      IF k \in DOMAIN ctx THEN ctx[k] ELSE inj.val[k]]],
                         inj.ev)

\* A response: a rendered page, or a plain text.
PageResponse(page) == [status |-> 200, kind |-> "html", page |-> page, text |-> <<>>]
TextResponse(status, text) == [status |-> status, kind |-> "text", page |-> <<>>, text |-> text]

\* Route without the except clause: the exception leaves the handler.
RouteNoCatch(prefix, steps) ==
    LET k == FirstRaise(steps)
    IN  IF k = 0 THEN Return(PageResponse(steps[Len(steps)].val), Events(steps, Len(steps)))
        ELSE Raise(steps[k].exc, Events(steps, k))

\* The try/except of a route (app.py:186-199, 204-219, 224-247, 252-275):
\* the steps run in order; the first exception ends them and becomes a
\* plain-text 500 carrying the prefix and the exception's message; with none,
\* the last step's rendered page is the response.
Route(prefix, steps) ==
    LET k == FirstRaise(steps)
    IN  IF k = 0 THEN Return(PageResponse(steps[Len(steps)].val), Events(steps, Len(steps)))
        ELSE Return(TextResponse(500, <<prefix, steps[k].exc>>), Events(steps, k))

\* testimonials[0] if testimonials else None (app.py:190).
FirstTestimonial(testimonials) == FetchOne(testimonials)

\* index (app.py:183-199). failAt is the connection acquisition of the
\* request that fails, 0 when none does.
index(d, failAt, outcome) ==
    LET s == get_site_settings(d["settings"], failAt # 1)
        h == get_page_content(d["page_content"], "home", failAt # 2)
        t == get_testimonials(d["testimonials"], failAt # 3)
        r == render_template("index.html",
                 [site_settings |-> s.val, settings |-> s.val,
                  home_content |-> h.val, testimonial |-> FirstTestimonial(t.val)],
                 d, failAt # 4, outcome)
    IN  Route("Error loading home page: ", <<s, h, t, r>>)

\* about (app.py:201-219).
about(d, failAt, outcome) ==
    LET s == get_site_settings(d["settings"], failAt # 1)
        p == get_page(d["pages"], "about", failAt # 2)
        c == get_page_content(d["page_content"], "about", failAt # 3)
        r == render_template("about.html",
                 [site_settings |-> s.val, settings |-> s.val,
                  page |-> p.val, about_content |-> c.val],
                 d, failAt # 4, outcome)
    IN  Route("Error loading about page: ", <<s, p, c, r>>)

\* where_to_buy (app.py:221-247).
where_to_buy(d, failAt, outcome) ==
    LET s == get_site_settings(d["settings"], failAt # 1)
        p == get_page(d["pages"], "where-to-buy", failAt # 2)
        c == get_page_content(d["page_content"], "where-to-buy", failAt # 3)
        o == get_retailers_by_category(d["retailers"], "online", failAt # 4)
        e == get_retailers_by_category(d["retailers"], "restaurant", failAt # 5)
        r == render_template("where-to-buy.html",
                 [site_settings |-> s.val, settings |-> s.val,
                  page |-> p.val, where_content |-> c.val,
                  online_retailers |-> o.val, restaurants |-> e.val,
                  retailer |-> o.val, restaurant |-> e.val],
                 d, failAt # 6, outcome)
    IN  Route("Error loading where to buy page: ", <<s, p, c, o, e, r>>)

\* The pages listing of admin (app.py:258-265): SELECT * FROM pages ORDER BY
\* slug, fetchall; [] on sqlite3.Error; the connection is acquired inside
\* the route's try block.
SlugKey(r) == IF r["slug"] = "about" THEN 1 ELSE 2
AdminPages(tbl, connOk) ==
    IF ~connOk THEN Raise(ConnError, <<"connect-failed">>)
    ELSE IF QueryFails(tbl, {"slug"})
    THEN Return(<<>>, <<"open", "query pages by slug", "close">>)
    ELSE Return(OrderBy(tbl.rows, [i \in DOMAIN tbl.rows |-> SlugKey(tbl.rows[i])]),
                <<"open", "query pages by slug", "close">>)

\* admin (app.py:249-275).
admin(d, failAt, outcome) ==
    LET s == get_site_settings(d["settings"], failAt # 1)
        a == get_all_retailers(d["retailers"], failAt # 2)
        t == get_testimonials(d["testimonials"], failAt # 3)
        p == AdminPages(d["pages"], failAt # 4)
        r == render_template("admin.html",
                 [site_settings |-> s.val, settings |-> s.val,
                  retailers |-> a.val, testimonials |-> t.val, pages |-> p.val],
                 d, failAt # 5, outcome)
    IN  Route("Error loading admin page: ", <<s, a, t, p, r>>)

\* A value formatted into an f-string: None prints as "None".
Str(v) == IF v = Null THEN "None" ELSE v

\* not_found with the tagline where the company name belongs.
not_found_Tagline(d, connOk) ==
    LET s == get_site_settings(d["settings"], connOk)
    IN  IF s.exc # "" THEN Raise(s.exc, s.ev)
        ELSE Return(TextResponse(404, <<"Page not found - ", Str(s.val["tagline"])>>), s.ev)

\* not_found (app.py:277-280): the 404 handler; no try block.
not_found(d, connOk) ==
    LET s == get_site_settings(d["settings"], connOk)
    IN  IF s.exc # "" THEN Raise(s.exc, s.ev)
        ELSE Return(TextResponse(404, <<"Page not found - ", Str(s.val["company_name"])>>),
                    s.ev)

\* ------------------------------------------------- the contents of the store
\* The ids, and the key/value pairs, the rows of the settings table are drawn
\* from: id 1 and another id; a recognized key with a text, with the empty
\* text and with None, and a key the code does not know.
IdDomain == {1, 2}
KeyValueDomain == {<<"company_name", "Pete's Snacks">>, <<"company_name", "">>,
                   <<"phone", Null>>, <<"address", "12 Main St">>}

\* The text a settings row stores in a recognized column.
StoredValue(c) == "stored " \o c

\* A settings row stores a text in every recognized column, or None or the
\* empty text in one of them.
FillPatterns == {<<"none", "">>, <<"company_name", "">>, <<"email", Null>>}

\* The column sets of a table. settings comes in both shapes of
\* get_site_settings, and mixtures: with or without an id column, with or
\* without key/value columns, with all, all but one (the first or another),
\* or none of the recognized columns. The other tables have the columns their queries name.
Schemas(t) ==
    CASE t = "settings" ->
           {ids \cup kv \cup five :
               ids \in {{}, {"id"}}, kv \in {{}, {"key", "value"}},
               five \in {SettingKeys, {}} \cup
                        {SettingKeys \ {c} : c \in {"company_name", "email"}}}
      [] t = "pages"        -> {{"slug", "title"}}
      [] t = "page_content" -> {{"page_name", "content"}}
      [] t = "retailers"    -> {{"name", "category"}}
      [] t = "testimonials" -> {{"active", "text"}}

\* The rows a table with columns cols can be given.
RowDomain(t, cols) ==
    CASE t = "settings" ->
           {[c \in cols |->
                CASE c = "id"    -> i
                  [] c = "key"   -> kv[1]
                  [] c = "value" -> kv[2]
                  [] OTHER       -> IF c = f[1] THEN f[2] ELSE StoredValue(c)] :
               i \in IdDomain, kv \in KeyValueDomain, f \in FillPatterns}
      [] t = "pages" ->
           {[slug |-> sl, title |-> ti] :
               sl \in {"about", "where-to-buy"}, ti \in {"first", "second"}}
      [] t = "page_content" ->
           {[page_name |-> n, content |-> "content of " \o n] :
               n \in {"home", "about", "where-to-buy"}}
      [] t = "retailers" ->
           {[name |-> n, category |-> c] :
               n \in {"Alpha Store", "Beta Store", "Gamma Store"},
               c \in {"online", "restaurant"}}
      [] t = "testimonials" ->
           {[active |-> a, text |-> x] : a \in {0, 1}, x \in {"Great!", "Meh"}}

\* ------------------------------------------------------------------- state
\* No call made yet, or the store changed since the last one.
Idle == [op |-> "none", arg |-> "", failAt |-> 0, outcome |-> "",
         exc |-> "", val |-> <<>>, ev |-> <<>>]

\* A fresh database file holds no table; the static folder holds the css and
\* js bundles; nothing is built.
Init ==
    /\ db = [t \in TableNames |-> NoTable]
    /\ static = {"css/style.css", "js/main.js"}
    /\ build = [exists |-> FALSE, files |-> {}]
    /\ last = Idle

\* The store is seeded and migrated outside the application.
DropTable(t) ==
    /\ db[t].exists
    /\ db' = [db EXCEPT ![t] = NoTable]
    /\ last' = Idle
    /\ UNCHANGED <<static, build>>

CreateTable(t, cols) ==
    /\ ~db[t].exists
    /\ db' = [db EXCEPT ![t] = [exists |-> TRUE, cols |-> cols, rows |-> <<>>]]
    /\ last' = Idle
    /\ UNCHANGED <<static, build>>

InsertRow(t, row) ==
    /\ db[t].exists
    /\ Len(db[t].rows) < (IF t = "settings" THEN MaxSettingsRows ELSE MaxRows)
    /\ db' = [db EXCEPT ![t].rows = Append(@, row)]
    /\ last' = Idle
    /\ UNCHANGED <<static, build>>

\* A call or request and what came of it.
Called(op, arg, failAt, outcome, res) ==
    /\ last' = [op |-> op, arg |-> arg, failAt |-> failAt, outcome |-> outcome,
                exc |-> res.exc, val |-> res.val, ev |-> res.ev]
    /\ UNCHANGED <<db, static, build>>

\* ------------------------------------------------------- calls and requests
CallGetSiteSettings ==
    \E failAt \in {0, 1} :
        Called("get_site_settings", "", failAt, "",
               get_site_settings(db["settings"], failAt # 1))

RequestNotFound ==
    \E failAt \in {0, 1} :
        Called("not_found", "/no-such-page", failAt, "", not_found(db, failAt # 1))

\* ------------------------------------------------------------ the settings
SettingsStore ==
    \/ DropTable("settings")
    \/ \E cols \in Schemas("settings") : CreateTable("settings", cols)
    \/ \E row \in RowDomain("settings", db["settings"].cols) : InsertRow("settings", row)

NextSettings == SettingsStore \/ CallGetSiteSettings \/ RequestNotFound

SpecSettings == Init /\ [][NextSettings]_vars

\* ------------------------------------------------------------ the retailers
CallGetRetailersByCategory ==
    \E category \in {"online", "restaurant", "wholesale"}, failAt \in {0, 1} :
        Called("get_retailers_by_category", category, failAt, "",
               get_retailers_by_category(db["retailers"], category, failAt # 1))

CallGetAllRetailers ==
    \E failAt \in {0, 1} :
        Called("get_all_retailers", "", failAt, "",
               get_all_retailers(db["retailers"], failAt # 1))

RetailersStore ==
    \/ DropTable("retailers")
    \/ \E cols \in Schemas("retailers") : CreateTable("retailers", cols)
    \/ \E row \in RowDomain("retailers", db["retailers"].cols) : InsertRow("retailers", row)

NextRetailers == RetailersStore \/ CallGetRetailersByCategory \/ CallGetAllRetailers

SpecRetailers == Init /\ [][NextRetailers]_vars

\* --------------------------------------------------------- the testimonials
CallGetTestimonials ==
    \E failAt \in {0, 1} :
        Called("get_testimonials", "", failAt, "",
               get_testimonials(db["testimonials"], failAt # 1))

RequestIndex ==
    \E failAt \in 0..4, outcome \in RenderOutcomes :
        Called("index", "/", failAt, outcome, index(db, failAt, outcome))

TestimonialsStore ==
    \/ DropTable("testimonials")
    \/ \E cols \in Schemas("testimonials") : CreateTable("testimonials", cols)
    \/ \E row \in RowDomain("testimonials", db["testimonials"].cols) :
          InsertRow("testimonials", row)

NextTestimonials == TestimonialsStore \/ CallGetTestimonials \/ RequestIndex

SpecTestimonials == Init /\ [][NextTestimonials]_vars

\* ------------------------------------------------------ the whole application
\* A table as a seeding script leaves it.
SeedRows(t) ==
    CASE t = "settings" ->
           <<[c \in {"id"} \cup SettingKeys |-> IF c = "id" THEN 1 ELSE StoredValue(c)]>>
      [] t = "pages" ->
           <<[slug |-> "where-to-buy", title |-> "first"],
             [slug |-> "about", title |-> "first"]>>
      [] t = "page_content" ->
           <<[page_name |-> "home", content |-> "content of home"],
             [page_name |-> "about", content |-> "content of about"]>>
      [] t = "retailers" ->
           <<[name |-> "Beta Store", category |-> "online"],
             [name |-> "Alpha Store", category |-> "online"],
             [name |-> "Gamma Store", category |-> "restaurant"]>>
      [] t = "testimonials" ->
           <<[active |-> 1, text |-> "Great!"], [active |-> 0, text |-> "Meh"]>>

SeedTable(t) ==
    /\ ~db[t].exists
    /\ db' = [db EXCEPT ![t] = [exists |-> TRUE,
                                cols |-> DOMAIN SeedRows(t)[1],
                                rows |-> SeedRows(t)]]
    /\ last' = Idle
    /\ UNCHANGED <<static, build>>

CallGetPage ==
    \E slug \in {"about", "where-to-buy", "nonexistent-slug"}, failAt \in {0, 1} :
        Called("get_page", slug, failAt, "", get_page(db["pages"], slug, failAt # 1))

CallGetPageContent ==
    \E page_name \in {"home", "about", "nonexistent-name"}, failAt \in {0, 1} :
        Called("get_page_content", page_name, failAt, "",
               get_page_content(db["page_content"], page_name, failAt # 1))

RequestAbout ==
    \E failAt \in 0..4, outcome \in RenderOutcomes :
        Called("about", "/about", failAt, outcome, about(db, failAt, outcome))

RequestWhereToBuy ==
    \E failAt \in 0..6, outcome \in RenderOutcomes :
        Called("where_to_buy", "/where-to-buy", failAt, outcome,
               where_to_buy(db, failAt, outcome))

RequestAdmin ==
    \E failAt \in 0..5, outcome \in RenderOutcomes :
        Called("admin", "/admin", failAt, outcome, admin(db, failAt, outcome))

SeededStore == \E t \in TableNames : DropTable(t) \/ SeedTable(t)

NextApp ==
    \/ SeededStore
    \/ CallGetSiteSettings \/ CallGetPage \/ CallGetPageContent
    \/ CallGetRetailersByCategory \/ CallGetAllRetailers \/ CallGetTestimonials
    \/ RequestIndex \/ RequestAbout \/ RequestWhereToBuy \/ RequestAdmin
    \/ RequestNotFound

SpecApp == Init /\ [][NextApp]_vars

\* ------------------------------------------------------------ the exporter
\* The names app.py defines or imports at its top level (app.py:6-297).
AppNames ==
    {"Flask", "render_template", "request", "redirect", "url_for", "flash",
     "sqlite3", "os", "app", "DATABASE", "get_db_connection", "get_site_settings",
     "get_page", "get_page_content", "get_retailers_by_category",
     "get_all_retailers", "get_testimonials", "strftime_filter",
     "inject_global_vars", "index", "about", "where_to_buy", "admin",
     "not_found", "internal_error", "get_local_ip"}

\* The endpoints and the paths app.py routes (app.py:183, 201, 221, 249), and
\* Flask's own static endpoint.
Endpoints == {"static", "index", "about", "where_to_buy", "admin"}
RoutePaths == {"/", "/about", "/where-to-buy", "/admin"}

\* The files the static folder can hold: the two bundles validate_build asks
\* for (freeze.py:112-113).
StaticDomain == {"css/style.css", "js/main.js"}

\* static_files (freeze.py:20-33): one static URL for every file of the css
\* and js folders (and of images, which the model leaves empty).
static_files(st) == {"static/" \o f : f \in st}

\* all_pages (freeze.py:35-41).
all_pages == <<"home", "about", "where_to_buy">>

\* The pages the exporter is meant to produce (freeze.py:149).
PageFiles == {"index.html", "about/index.html", "where-to-buy/index.html"}

\* validate_build's required files, in its order (freeze.py:108-114).
required_files ==
    <<"index.html", "about/index.html", "where-to-buy/index.html",
      "static/css/style.css", "static/js/main.js">>

\* The result of an exporter step: as a call's, with the build directory it
\* leaves.
Step(exc, v, ev, b) == [exc |-> exc, val |-> v, ev |-> ev, build |-> b]

\* clean_build_directory (freeze.py:131-139): rmtree when the directory
\* exists, then makedirs.
clean_build_directory(b) ==
    Step("", <<>>, <<"clean">>, [exists |-> TRUE, files |-> {}])

\* freezer.freeze() (freeze.py:177-178) over the URL generators. Frozen-Flask
\* creates the directory and writes the pages and assets it builds; written
\* is what it got to write. An entry of all_pages that names neither an
\* endpoint nor a routed path cannot be built, and ends the freeze with an
\* exception.
freeze(b, st, written) ==
    LET unbuilt == {i \in DOMAIN all_pages :
                       /\ all_pages[i] \notin Endpoints
                       /\ ("/" \o all_pages[i]) \notin RoutePaths}
    IN  Step(IF unbuilt = {} THEN ""
             ELSE "cannot build " \o all_pages[CHOOSE i \in unbuilt : \A j \in unbuilt : i <= j],
             <<>>, <<"freeze">>,
             [exists |-> TRUE, files |-> b.files \cup written])

\* What one freeze can write: pages, and the static files there are.
FreezeOutputs(st) == SUBSET (PageFiles \cup static_files(st))

\* prepare_build_directory (freeze.py:43-88): .nojekyll, robots.txt and
\* sitemap.xml, opened for writing inside the build directory.
prepare_build_directory(b) ==
    IF ~b.exists THEN Step("No such file or directory", <<>>, <<"prepare">>, b)
    ELSE Step("", <<>>, <<"prepare">>,
              [b EXCEPT !.files = @ \cup {".nojekyll", "robots.txt", "sitemap.xml"}])

\* generate_deployment_info (freeze.py:141-162).
generate_deployment_info(b) ==
    IF ~b.exists THEN Step("No such file or directory", <<>>, <<"deployment-info">>, b)
    ELSE Step("", <<>>, <<"deployment-info">>,
              [b EXCEPT !.files = @ \cup {"deployment-info.json"}])

\* validate_build (freeze.py:104-129): the required files that do not exist
\* are printed by name, in order; False when there is one, True otherwise.
validate_build(b) ==
    LET missing == SelectSeq(required_files, LAMBDA f : f \notin b.files)
    IN  Step("", [ok |-> missing = <<>>, missing |-> missing], <<"validate">>, b)

\* main (freeze.py:164-199). It begins by importing init_db from app
\* (lines 169-170): a name app.py does not define makes the import raise
\* ImportError, before any step of the export.
main(b, st, written) ==
    IF "init_db" \notin AppNames
    THEN Step("cannot import name 'init_db' from 'app'", <<>>, <<"import init_db">>, b)
    ELSE LET c == clean_build_directory(b)
             f == freeze(c.build, st, written)
             p == prepare_build_directory(f.build)
             g == generate_deployment_info(p.build)
             v == validate_build(g.build)
         IN  IF f.exc # ""
             THEN Step(f.exc, <<>>, <<"import init_db", "init_db">> \o c.ev \o f.ev, f.build)
             ELSE Step("", IF v.val.ok THEN 0 ELSE 1,
                       <<"import init_db", "init_db">> \o c.ev \o f.ev \o p.ev
                           \o <<"optimize">> \o g.ev \o v.ev,
                       g.build)

\* An exporter call and what came of it.
Exported(op, res) ==
    /\ last' = [op |-> op, arg |-> "", failAt |-> 0, outcome |-> "",
                exc |-> res.exc, val |-> res.val, ev |-> res.ev]
    /\ build' = res.build
    /\ UNCHANGED <<db, static>>

RunMain == \E written \in FreezeOutputs(static) : Exported("main", main(build, static, written))

CallCleanBuildDirectory == Exported("clean_build_directory", clean_build_directory(build))

CallFreeze ==
    \E written \in FreezeOutputs(static) : Exported("freeze", freeze(build, static, written))

CallPrepareBuildDirectory ==
    Exported("prepare_build_directory", prepare_build_directory(build))

CallGenerateDeploymentInfo ==
    Exported("generate_deployment_info", generate_deployment_info(build))

CallValidateBuild == Exported("validate_build", validate_build(build))

\* A file of the static folder is added or removed.
ChangeStatic ==
    /\ \E f \in StaticDomain : static' = IF f \in static THEN static \ {f} ELSE static \cup {f}
    /\ last' = Idle
    /\ UNCHANGED <<db, build>>

\* A file of the build directory is deleted by hand.
DeleteBuildFile ==
    /\ \E f \in build.files : build' = [build EXCEPT !.files = @ \ {f}]
    /\ last' = Idle
    /\ UNCHANGED <<db, static>>

\* An earlier export of a site with another page left its file behind.
StaleFile == "old-page/index.html"
LeaveStaleFile ==
    /\ StaleFile \notin build.files
    /\ build' = [exists |-> TRUE, files |-> build.files \cup {StaleFile}]
    /\ last' = Idle
    /\ UNCHANGED <<db, static>>

NextExport ==
    \/ RunMain \/ CallCleanBuildDirectory \/ CallFreeze \/ CallPrepareBuildDirectory
    \/ CallGenerateDeploymentInfo \/ CallValidateBuild
    \/ ChangeStatic \/ DeleteBuildFile \/ LeaveStaleFile

SpecExport == Init /\ [][NextExport]_vars

\* Every call, request and change of the store or the build.
Next == NextSettings \/ NextRetailers \/ NextTestimonials \/ NextApp \/ NextExport

Spec == Init /\ [][Next]_vars

\* ==================================================================== claims

\* ---- C1
\* The settings-store states C1 names: a full primary-shape row with id 1,
\* key/value-shape rows only, an empty settings table, no settings table.
FullPrimaryRow(tbl) ==
    /\ tbl.exists
    /\ tbl.cols = {"id"} \cup SettingKeys
    /\ \E i \in DOMAIN tbl.rows :
          /\ tbl.rows[i]["id"] = 1
          /\ \A j \in 1..(i - 1) : tbl.rows[j]["id"] # 1
          /\ \A k \in SettingKeys : tbl.rows[i][k] \notin EmptyValues
KeyValueRowsOnly(tbl) == tbl.exists /\ tbl.cols = {"key", "value"} /\ tbl.rows # <<>>
EmptySettingsTable(tbl) == tbl.exists /\ tbl.rows = <<>>
NamedStoreState(tbl) ==
    \/ FullPrimaryRow(tbl) \/ KeyValueRowsOnly(tbl)
    \/ EmptySettingsTable(tbl) \/ ~tbl.exists

\* The keys the store holds in key/value rows, and whether it holds value v
\* for key k, in a column named k or in a key/value row.
StoredKeys(tbl) ==
    IF "key" \in tbl.cols THEN {tbl.rows[i]["key"] : i \in DOMAIN tbl.rows} ELSE {}
StoredAs(tbl, k, v) ==
    \E i \in DOMAIN tbl.rows :
        \/ k \in tbl.cols /\ tbl.rows[i][k] = v
        \/ /\ {"key", "value"} \subseteq tbl.cols
           /\ tbl.rows[i]["key"] = k
           /\ tbl.rows[i]["value"] = v

\* C1 as stated: in each of the named settings-store states, get_site_settings
\* (holding a connection) returns a mapping whose key set is exactly the five
\* recognized keys, every value non-empty.
C1_ExactlyFiveNonEmpty ==
    (last.op = "get_site_settings" /\ last.failAt = 0 /\ NamedStoreState(db["settings"]))
        => /\ last.exc = ""
           /\ DOMAIN last.val = SettingKeys
           /\ \A k \in SettingKeys : last.val[k] \notin EmptyValues

\* C1 amended: in every settings-store state, get_site_settings (holding a
\* connection) returns a mapping that has the five recognized keys and, beyond
\* them, only keys stored in key/value rows; each of the five values is
\* non-empty unless the store itself holds that empty or null value for the key.
C1_FiveKeysDefaultsFillGaps ==
    (last.op = "get_site_settings" /\ last.failAt = 0)
        => /\ last.exc = ""
           /\ SettingKeys \subseteq DOMAIN last.val
           /\ (DOMAIN last.val) \ SettingKeys \subseteq StoredKeys(db["settings"])
           /\ \A k \in SettingKeys :
                 last.val[k] \in EmptyValues => StoredAs(db["settings"], k, last.val[k])

\* C1's case: key/value rows only, one of them under a key the code does not
\* know, and a recognized key the rows lack filled with its default.
C1_Witness ==
    /\ last.op = "get_site_settings" /\ last.exc = ""
    /\ KeyValueRowsOnly(db["settings"])
    /\ "address" \in DOMAIN last.val
    /\ last.val["tagline"] = DefaultSettings["tagline"]
    /\ last.val["company_name"] = "Pete's Snacks"

\* ---- C2
\* C2 as stated: get_site_settings never propagates an error: whichever step
\* fails, acquiring the connection included, the call returns normally with
\* the five keys.
C2_NeverRaises ==
    last.op = "get_site_settings"
        => last.exc = "" /\ SettingKeys \subseteq DOMAIN last.val

\* ---- C3
AccessorOps ==
    {"get_page", "get_page_content", "get_retailers_by_category",
     "get_all_retailers", "get_testimonials"}
AccessorTable(op) ==
    CASE op = "get_page" -> "pages"
      [] op = "get_page_content" -> "page_content"
      [] op \in {"get_retailers_by_category", "get_all_retailers"} -> "retailers"
      [] op = "get_testimonials" -> "testimonials"

\* C3 as stated: a data-access error of an accessor, a failed query or a
\* failed connection, never reaches the caller: get_page and get_page_content
\* return None, the three list accessors an empty list.
C3_AccessorsAbsorbErrors ==
    (/\ last.op \in AccessorOps
     /\ (last.failAt = 1 \/ ~db[AccessorTable(last.op)].exists))
        => /\ last.exc = ""
           /\ last.op \in {"get_page", "get_page_content"} => last.val = Absent
           /\ last.op \notin {"get_page", "get_page_content"} => last.val = <<>>

\* ---- C4
RouteOps == {"index", "about", "where_to_buy", "admin"}
RouteTemplate(op) ==
    CASE op = "index" -> "index.html"
      [] op = "about" -> "about.html"
      [] op = "where_to_buy" -> "where-to-buy.html"
      [] op = "admin" -> "admin.html"
\* The connections a request of the route acquires, the context injector's
\* last.
RouteConnections(op) ==
    CASE op = "index" -> 4 [] op = "about" -> 4 [] op = "where_to_buy" -> 6 [] op = "admin" -> 5
\* The message of the exception a request meets first.
FirstExceptionMessage(op, failAt, outcome) ==
    IF failAt \in 1..(RouteConnections(op) - 1) THEN ConnError
    ELSE IF outcome = "TemplateNotFound" THEN RouteTemplate(op)
    ELSE IF failAt = RouteConnections(op) THEN ConnError
    ELSE "TemplateError"

\* C4: a request of /, /about, /where-to-buy or /admin always ends with a
\* response and no exception leaves the handler: the rendered page when
\* nothing fails, and otherwise (a connection that fails while gathering, the
\* context injector's, a template that is missing or fails) a plain text with
\* status 500 that carries the exception's message.
C4_RoutesAlwaysRespond ==
    last.op \in RouteOps
        => /\ last.exc = ""
           /\ IF last.failAt = 0 /\ last.outcome = "ok"
              THEN /\ last.val.status = 200
                   /\ last.val.kind = "html"
                   /\ last.val.page.template = RouteTemplate(last.op)
              ELSE /\ last.val.status = 500
                   /\ last.val.kind = "text"
                   /\ Len(last.val.text) = 2
                   /\ last.val.text[2] =
                          FirstExceptionMessage(last.op, last.failAt, last.outcome)

\* C4's case: the home page gathers its data, the template is found, and the
\* connection of the context injector fails during the render.
C4_Witness ==
    /\ last.op = "index" /\ last.failAt = 4 /\ last.outcome = "ok"
    /\ db["testimonials"].exists
    /\ last.val.status = 500
    /\ last.val.text = <<"Error loading home page: ", ConnError>>

\* ---- C5
AllRequiredExist(b) == \A i \in DOMAIN required_files : required_files[i] \in b.files

\* C5 as stated: an export run, with style.css and main.js in the static
\* folder, leaves the five validated paths in the build directory.
C5_ExportLeavesRequiredFiles ==
    (last.op = "main" /\ {"css/style.css", "js/main.js"} \subseteq static)
        => AllRequiredExist(build)

\* ---- C6
\* C6 as stated: validate_build fails exactly when a required path is
\* missing and reports exactly the missing paths; main then returns 1 without
\* raising, and 0 exactly when all five exist.
C6_ValidationDecidesExitCode ==
    /\ last.op = "validate_build"
          => /\ last.val.ok <=> AllRequiredExist(build)
             /\ {last.val.missing[i] : i \in DOMAIN last.val.missing}
                   = {required_files[i] : i \in DOMAIN required_files} \ build.files
    /\ last.op = "main"
          => /\ last.exc = ""
             /\ last.val = (IF AllRequiredExist(build) THEN 0 ELSE 1)

\* ---- C7
\* C7 as stated: after an export run no file of an earlier, differently
\* shaped run is left in the build directory, and a second run in a row
\* leaves the same files as the first.
C7_RunsAreIdempotent ==
    [][last'.op = "main"
          => /\ StaleFile \notin build'.files
             /\ last.op = "main" => build'.files = build.files]_vars

ActiveIndexes(rows) == {i \in DOMAIN rows : rows[i]["active"] = 1}

\* C9: get_testimonials returns exactly the rows with active = 1, each once
\* and in table order, none of the inactive ones; the home route hands the
\* template the first of them, or none when there is none.
C9_OnlyActiveTestimonials ==
    LET rows == db["testimonials"].rows
        act  == ActiveIndexes(rows)
    IN  /\ (last.op = "get_testimonials" /\ last.exc = "")
              => /\ Len(last.val) = Cardinality(act)
                 /\ \A i \in DOMAIN last.val : last.val[i]["active"] = 1
                 /\ \A i \in DOMAIN last.val :
                       \E j \in act :
                          /\ last.val[i] = rows[j]
                          /\ Cardinality({k \in act : k < j}) = i - 1
        /\ (last.op = "index" /\ last.val.status = 200)
              => IF act = {} THEN ~last.val.page.ctx.testimonial.found
                 ELSE /\ last.val.page.ctx.testimonial.found
                      /\ last.val.page.ctx.testimonial.row =
                            rows[CHOOSE j \in act : \A k \in act : j <= k]

\* C9's case: an inactive row comes first in the table, an active one after
\* it, and the home page shows the active one.
C9_Witness ==
    /\ last.op = "index" /\ last.val.status = 200
    /\ Len(db["testimonials"].rows) >= 2
    /\ db["testimonials"].rows[1] = [active |-> 0, text |-> "Meh"]
    /\ last.val.page.ctx.testimonial = [found |-> TRUE, row |-> [active |-> 1, text |-> "Great!"]]

\* ---- C10
Count(rows, r) == Cardinality({i \in DOMAIN rows : rows[i] = r})

\* C10: for every category and every contents of the retailers table,
\* get_retailers_by_category returns exactly the rows of that category, each
\* as often as the table holds it, in ascending order of name.
C10_CategoryRowsByName ==
    (last.op = "get_retailers_by_category" /\ last.exc = "")
        => LET rows == db["retailers"].rows
           IN  /\ \A i \in DOMAIN last.val : last.val[i]["category"] = last.arg
               /\ \A i \in DOMAIN rows :
                     rows[i]["category"] = last.arg
                        => Count(last.val, rows[i]) = Count(rows, rows[i])
               /\ \A i \in DOMAIN last.val : Count(rows, last.val[i]) > 0
               /\ \A i, j \in DOMAIN last.val :
                     i < j => TextRank(last.val[i]["name"]) <= TextRank(last.val[j]["name"])

\* C10's case: the table holds Beta Store before Alpha Store, both online,
\* and a restaurant; the online listing is Alpha Store, Beta Store.
C10_Witness ==
    /\ last.op = "get_retailers_by_category" /\ last.arg = "online"
    /\ db["retailers"].rows =
          <<[name |-> "Beta Store", category |-> "online"],
            [name |-> "Gamma Store", category |-> "restaurant"],
            [name |-> "Alpha Store", category |-> "online"]>>
    /\ last.val = <<[name |-> "Alpha Store", category |-> "online"],
                    [name |-> "Beta Store", category |-> "online"]>>

\* ---- C11
\* The row of the settings table the id = 1 query fetches: the first row
\* with id 1 of a table that has an id column.
HasPrimaryRow(tbl) ==
    tbl.exists /\ "id" \in tbl.cols /\ \E i \in DOMAIN tbl.rows : tbl.rows[i]["id"] = 1
PrimaryRow(tbl) ==
    tbl.rows[CHOOSE i \in DOMAIN tbl.rows :
                /\ tbl.rows[i]["id"] = 1
                /\ \A j \in 1..(i - 1) : tbl.rows[j]["id"] # 1]

\* C11: when the settings row with id 1 exists, get_site_settings (holding a
\* connection) returns exactly the five recognized keys: for a column the
\* table lacks the built-in default, never null, and for a column it has the
\* value the row stores.
C11_MissingColumnGetsDefault ==
    (last.op = "get_site_settings" /\ last.failAt = 0 /\ HasPrimaryRow(db["settings"]))
        => /\ last.exc = ""
           /\ DOMAIN last.val = SettingKeys
           /\ \A k \in SettingKeys :
                 /\ k \notin db["settings"].cols
                       => last.val[k] = DefaultSettings[k] /\ last.val[k] # Null
                 /\ k \in db["settings"].cols
                       => last.val[k] = PrimaryRow(db["settings"])[k]

\* C11's case: a row with id 1 in a table without the email column; the
\* email is the default and the company name is the stored one.
C11_Witness ==
    /\ last.op = "get_site_settings" /\ last.exc = ""
    /\ HasPrimaryRow(db["settings"])
    /\ db["settings"].cols \cap SettingKeys = SettingKeys \ {"email"}
    /\ last.val["email"] = DefaultSettings["email"]
    /\ last.val["company_name"] = StoredValue("company_name")

\* ---- C12
\* The steps of an export run that write to or read the build directory.
ExportSteps == <<"clean", "freeze", "prepare", "deployment-info", "validate">>

\* C12 as stated: every run of main performs its steps in this order, none
\* skipped: the build directory is removed and recreated empty, the routes
\* and the static assets are written, the auxiliary artifacts are written,
\* and validation runs last; so the run leaves the auxiliary artifacts in
\* the build directory.
C12_StepsInOrderNoneSkipped ==
    last.op = "main"
        => /\ SelectSeq(last.ev, LAMBDA e : \E i \in DOMAIN ExportSteps : ExportSteps[i] = e)
                 = ExportSteps
           /\ last.ev[Len(last.ev)] = "validate"
           /\ {".nojekyll", "robots.txt", "sitemap.xml", "deployment-info.json"}
                 \subseteq build.files

\* ---- C13
\* The settings queries a call issued, in order.
SettingsQueries(ev) ==
    SelectSeq(ev, LAMBDA e : e \in {"query settings id=1", "query settings key/value"})

\* The key/value query succeeds and returns at least one row.
HasKeyValueRows(tbl) ==
    tbl.exists /\ {"key", "value"} \subseteq tbl.cols /\ tbl.rows # <<>>

\* C13: get_site_settings (holding a connection) resolves the settings in a
\* strict precedence. When the id = 1 query returns a row, the result is
\* built from that row and the key/value query is not issued. Otherwise (the
\* id = 1 query raised or returned no row) the key/value query is issued
\* after it; its rows make the result, defaults filling the recognized keys
\* they lack, exactly when it returns at least one row; and the full default
\* set is the result exactly when it raised or returned none.
C13_StrictPrecedence ==
    (last.op = "get_site_settings" /\ last.failAt = 0)
        => LET tbl == db["settings"]
           IN  /\ last.exc = ""
               /\ HasPrimaryRow(tbl)
                     => /\ SettingsQueries(last.ev) = <<"query settings id=1">>
                        /\ DOMAIN last.val = SettingKeys
                        /\ \A k \in SettingKeys \cap tbl.cols :
                              last.val[k] = PrimaryRow(tbl)[k]
               /\ ~HasPrimaryRow(tbl)
                     => SettingsQueries(last.ev)
                           = <<"query settings id=1", "query settings key/value">>
               /\ (~HasPrimaryRow(tbl) /\ HasKeyValueRows(tbl))
                     => /\ DOMAIN last.val = SettingKeys \cup StoredKeys(tbl)
                        /\ \A k \in StoredKeys(tbl) :
                              \E i \in DOMAIN tbl.rows :
                                 tbl.rows[i]["key"] = k /\ tbl.rows[i]["value"] = last.val[k]
                        /\ \A k \in SettingKeys \ StoredKeys(tbl) :
                              last.val[k] = DefaultSettings[k]
               /\ (~HasPrimaryRow(tbl) /\ ~HasKeyValueRows(tbl))
                     => last.val = DefaultSettings

\* C13's case: the table has a row with id 1 and key/value columns whose
\* rows name a company; the result is the row's, and only the id = 1 query
\* was issued.
C13_Witness ==
    /\ last.op = "get_site_settings" /\ last.exc = ""
    /\ HasPrimaryRow(db["settings"]) /\ HasKeyValueRows(db["settings"])
    /\ "company_name" \in db["settings"].cols
    /\ \E i \in DOMAIN db["settings"].rows :
          /\ db["settings"].rows[i]["key"] = "company_name"
          /\ db["settings"].rows[i]["value"] = "Pete's Snacks"
    /\ last.val["company_name"] = StoredValue("company_name")
    /\ SettingsQueries(last.ev) = <<"query settings id=1">>

\* ---- C14
\* The events that are queries.
QueryEvents ==
    {"query settings id=1", "query settings key/value", "query pages",
     "query page_content", "query retailers by category", "query retailers",
     "query testimonials", "query pages by slug"}

\* The connections open after the first k events of a log: an acquisition
\* opens one, a close closes the open one, and a close with none open (a
\* second close of the same connection) changes nothing.
RECURSIVE OpenAfter(_, _)
OpenAfter(ev, k) ==
    IF k = 0 THEN 0
    ELSE LET before == OpenAfter(ev, k - 1)
         IN  CASE ev[k] = "open" -> before + 1
               [] ev[k] = "close" -> IF before > 0 THEN before - 1 ELSE 0
               [] OTHER -> before

\* C14: in the events of every accessor call and page request, successful
\* or failing, a connection is acquired only when none is open (the call
\* before it closed its own, so none is shared or held between calls), every
\* query runs on the one open connection, and none is open at the end, when
\* the call returns or the response is produced.
C14_ConnectionsClosedPerCall ==
    /\ \A k \in DOMAIN last.ev :
          /\ last.ev[k] \in {"open", "connect-failed"} => OpenAfter(last.ev, k - 1) = 0
          /\ last.ev[k] \in QueryEvents => OpenAfter(last.ev, k - 1) = 1
    /\ OpenAfter(last.ev, Len(last.ev)) = 0

\* C14's case: an admin request against a store without the pages and
\* retailers tables; its five connections were opened, two of them met a
\* query error, and none is open when the page is returned.
C14_Witness ==
    /\ last.op = "admin" /\ last.exc = "" /\ last.val.status = 200
    /\ ~db["pages"].exists /\ ~db["retailers"].exists
    /\ Cardinality({k \in DOMAIN last.ev : last.ev[k] = "open"}) = 5
    /\ \E k \in DOMAIN last.ev : last.ev[k] = "query pages by slug"
    /\ OpenAfter(last.ev, Len(last.ev)) = 0

====
